---- MODULE Spec2Model ----
(***************************************************************************)
(* The three key-input relay servers of examples/python: main.py and       *)
(* pywinauto_example.py (focus-gated, pywinauto keyboard.send_keys) and     *)
(* kmbox_example.py (raw injection, kmNet).  One behaviour is one run of    *)
(* one of the three scripts: its start-up, then RPCs submitted to the gRPC  *)
(* server's thread pool and handled by KeyInput.Send/SendUp/SendDown.       *)
(***************************************************************************)
EXTENDS Integers, Sequences, FiniteSets, TLC

\* Number of RPC slots (calls that may be outstanding or unacknowledged at once).
MaxCalls == 2
\* Largest number of top-level windows that may match the find_window query.
MaxWindows == 2

Calls == 1..MaxCalls

Variants == {"main", "pywinauto", "kmbox"}
Gated(v) == v \in {"main", "pywinauto"}

Ops == {"Send", "SendUp", "SendDown"}

(***************************************************************************)
(* input_pb2.Key: the enum of abstract keys.  Value i has the name         *)
(* KeyNames[i + 1]; the letters are 0..25 (kmbox_example.py line 35).       *)
(***************************************************************************)
KeyNames ==
    << "A", "B", "C", "D", "E", "F", "G", "H", "I", "J", "K", "L", "M",
       "N", "O", "P", "Q", "R", "S", "T", "U", "V", "W", "X", "Y", "Z",
       "Zero", "One", "Two", "Three", "Four", "Five", "Six", "Seven",
       "Eight", "Nine",
       "F1", "F2", "F3", "F4", "F5", "F6", "F7", "F8", "F9", "F10", "F11",
       "F12",
       "Up", "Down", "Left", "Right", "Home", "End", "PageUp", "PageDown",
       "Insert", "Delete",
       "Ctrl", "Enter", "Space", "Tilde", "Quote", "Semicolon", "Comma",
       "Period", "Slash", "Esc", "Shift", "Alt" >>

\* Key.<name>: the integer value of an enum member.
Key(name) == (CHOOSE i \in 1..Len(KeyNames) : KeyNames[i] = name) - 1

\* Every value a request's key field takes.
Keys == 0..(Len(KeyNames) - 1)

\* The letters A..Z as request key values.
Letters == 0..25

(***************************************************************************)
(* Python values used as dict keys: an int and a str are never equal, so   *)
(* each carries its type.                                                  *)
(***************************************************************************)
PyInt(i) == <<"int", i>>
PyStr(s) == <<"str", s>>

\* Key.Name(i): the NAME of enum value i, a str.
KeyName(i) == PyStr(KeyNames[i + 1])

\* A dict literal: the mapping holding the given <<key, value>> items.
Dict(items) ==
    [k \in {it[1] : it \in items} |-> (CHOOSE it \in items : it[1] = k)[2]]

\* self.keys_map[request.key]: request.key is the enum's int value.
\* A missing key raises KeyError.
Resolve(m, k) ==
    IF PyInt(k) \in DOMAIN m
    THEN [found |-> TRUE, token |-> m[PyInt(k)]]
    ELSE [found |-> FALSE, token |-> "KeyError"]

Mapped(m, k) == Resolve(m, k).found

\* main.py's table.
main_keys_map ==
    Dict({ <<PyInt(Key("Space")), "VK_SPACE">>,
           <<PyInt(Key("Up")), "UP">>,
           <<PyInt(Key("Down")), "DOWN">>,
           <<PyInt(Key("Left")), "LEFT">>,
           <<PyInt(Key("Right")), "RIGHT">> })

LowerCase ==
    << "a", "b", "c", "d", "e", "f", "g", "h", "i", "j", "k", "l", "m",
       "n", "o", "p", "q", "r", "s", "t", "u", "v", "w", "x", "y", "z" >>

\* pywinauto_example.py's table.
pywinauto_keys_map ==
    Dict({ <<PyInt(i), LowerCase[i + 1]>> : i \in Letters } \cup
         { <<PyInt(Key("Zero")), "0">>, <<PyInt(Key("One")), "1">>,
           <<PyInt(Key("Two")), "2">>, <<PyInt(Key("Three")), "3">>,
           <<PyInt(Key("Four")), "4">>, <<PyInt(Key("Five")), "5">>,
           <<PyInt(Key("Six")), "6">>, <<PyInt(Key("Seven")), "7">>,
           <<PyInt(Key("Eight")), "8">>, <<PyInt(Key("Nine")), "9">>,
           <<PyInt(Key("F1")), "F1">>, <<PyInt(Key("F2")), "F2">>,
           <<PyInt(Key("F3")), "F3">>, <<PyInt(Key("F4")), "F4">>,
           <<PyInt(Key("F5")), "F5">>, <<PyInt(Key("F6")), "F6">>,
           <<PyInt(Key("F7")), "F7">>, <<PyInt(Key("F8")), "F8">>,
           <<PyInt(Key("F9")), "F9">>, <<PyInt(Key("F10")), "F10">>,
           <<PyInt(Key("F11")), "F11">>, <<PyInt(Key("F12")), "F12">>,
           <<PyInt(Key("Up")), "UP">>, <<PyInt(Key("Down")), "DOWN">>,
           <<PyInt(Key("Left")), "LEFT">>, <<PyInt(Key("Right")), "RIGHT">>,
           <<PyInt(Key("Home")), "HOME">>, <<PyInt(Key("End")), "END">>,
           <<PyInt(Key("PageUp")), "PGUP">>,
           <<PyInt(Key("PageDown")), "PGDN">>,
           <<PyInt(Key("Insert")), "INSERT">>,
           <<PyInt(Key("Delete")), "DEL">>,
           <<PyInt(Key("Esc")), "ESC">>, <<PyInt(Key("Enter")), "ENTER">>,
           <<PyInt(Key("Space")), "SPACE">>,
           <<PyInt(Key("Ctrl")), "^">>, <<PyInt(Key("Shift")), "+">>,
           <<PyInt(Key("Alt")), "%">>,
           <<PyInt(Key("Tilde")), "`">>, <<PyInt(Key("Quote")), "'">>,
           <<PyInt(Key("Semicolon")), ";">>, <<PyInt(Key("Comma")), ",">>,
           <<PyInt(Key("Period")), ".">>, <<PyInt(Key("Slash")), "/">> })

\* kmbox_example.py's table: the letter entries are keyed by Key.Name(i).
kmbox_keys_map ==
    Dict({ <<KeyName(i), 4 + i>> : i \in 0..25 } \cup
         { <<PyInt(Key("Zero")), 39>>, <<PyInt(Key("One")), 30>>,
           <<PyInt(Key("Two")), 31>>, <<PyInt(Key("Three")), 32>>,
           <<PyInt(Key("Four")), 33>>, <<PyInt(Key("Five")), 34>>,
           <<PyInt(Key("Six")), 35>>, <<PyInt(Key("Seven")), 36>>,
           <<PyInt(Key("Eight")), 37>>, <<PyInt(Key("Nine")), 38>>,
           <<PyInt(Key("F1")), 58>>, <<PyInt(Key("F2")), 59>>,
           <<PyInt(Key("F3")), 60>>, <<PyInt(Key("F4")), 61>>,
           <<PyInt(Key("F5")), 62>>, <<PyInt(Key("F6")), 63>>,
           <<PyInt(Key("F7")), 64>>, <<PyInt(Key("F8")), 65>>,
           <<PyInt(Key("F9")), 66>>, <<PyInt(Key("F10")), 67>>,
           <<PyInt(Key("F11")), 68>>, <<PyInt(Key("F12")), 69>>,
           <<PyInt(Key("Up")), 82>>, <<PyInt(Key("Down")), 81>>,
           <<PyInt(Key("Left")), 80>>, <<PyInt(Key("Right")), 79>>,
           <<PyInt(Key("Home")), 74>>, <<PyInt(Key("End")), 77>>,
           <<PyInt(Key("PageUp")), 75>>, <<PyInt(Key("PageDown")), 78>>,
           <<PyInt(Key("Insert")), 73>>, <<PyInt(Key("Delete")), 76>>,
           <<PyInt(Key("Ctrl")), 224>>, <<PyInt(Key("Enter")), 40>>,
           <<PyInt(Key("Space")), 44>>, <<PyInt(Key("Tilde")), 53>>,
           <<PyInt(Key("Quote")), 52>>, <<PyInt(Key("Semicolon")), 51>>,
           <<PyInt(Key("Comma")), 54>>, <<PyInt(Key("Period")), 55>>,
           <<PyInt(Key("Slash")), 56>>, <<PyInt(Key("Esc")), 41>>,
           <<PyInt(Key("Shift")), 225>>, <<PyInt(Key("Alt")), 226>> })

\* The table each script passes to KeyInput(...).
TableOf(v) ==
    CASE v = "main" -> main_keys_map
      [] v = "pywinauto" -> pywinauto_keys_map
      [] v = "kmbox" -> kmbox_keys_map

\* futures.ThreadPoolExecutor(max_workers=...) of each script.
main_max_workers == 10
pywinauto_max_workers == 1
kmbox_max_workers == 1

max_workers(v) ==
    CASE v = "main" -> main_max_workers
      [] v = "pywinauto" -> pywinauto_max_workers
      [] v = "kmbox" -> kmbox_max_workers

(***************************************************************************)
(* The backend call each handler makes for a resolved token: the primitive *)
(* and its positional arguments.                                           *)
(***************************************************************************)
main_Send(token) ==
    [prim |-> "send_keys", args |-> <<"{" \o token \o "}">>]

main_SendUp(token) ==
    [prim |-> "send_keys", args |-> <<"{" \o token \o " up}">>]

main_SendDown(token) ==
    [prim |-> "send_keys", args |-> <<"{" \o token \o " down}">>]

\* pywinauto_Send without the single-character branch (main.py's form).
pywinauto_Send_braced(token) ==
    [prim |-> "send_keys", args |-> <<"{" \o token \o "}">>]

pywinauto_Send(token) ==
    IF Len(token) = 1
    THEN [prim |-> "send_keys", args |-> <<token>>]
    ELSE [prim |-> "send_keys", args |-> <<"{" \o token \o "}">>]

\* pywinauto_SendUp with the suffix of SendDown.
pywinauto_SendUp_down(token) ==
    [prim |-> "send_keys", args |-> <<"{" \o token \o " down}">>]

pywinauto_SendUp(token) ==
    [prim |-> "send_keys", args |-> <<"{" \o token \o " up}">>]

pywinauto_SendDown(token) ==
    [prim |-> "send_keys", args |-> <<"{" \o token \o " down}">>]

kmbox_Send(token) ==
    [prim |-> "keypress", args |-> <<token, 0>>]

kmbox_SendUp(token) ==
    [prim |-> "keydown", args |-> <<token>>]

kmbox_SendDown(token) ==
    [prim |-> "keyup", args |-> <<token>>]

\* The method of the servicer class of script v that serves RPC op.
BackendCall(v, op, token) ==
    CASE v = "main" /\ op = "Send" -> main_Send(token)
      [] v = "main" /\ op = "SendUp" -> main_SendUp(token)
      [] v = "main" /\ op = "SendDown" -> main_SendDown(token)
      [] v = "pywinauto" /\ op = "Send" -> pywinauto_Send(token)
      [] v = "pywinauto" /\ op = "SendUp" -> pywinauto_SendUp(token)
      [] v = "pywinauto" /\ op = "SendDown" -> pywinauto_SendDown(token)
      [] v = "kmbox" /\ op = "Send" -> kmbox_Send(token)
      [] v = "kmbox" /\ op = "SendUp" -> kmbox_SendUp(token)
      [] v = "kmbox" /\ op = "SendDown" -> kmbox_SendDown(token)

\* The gate with the method object tested instead of its result: always true.
FocusGateAlways(f) == TRUE

\* `if self.window.has_keyboard_focus():` -- whether the handler goes on to
\* synthesize, given what has_keyboard_focus() returned.
FocusGate(f) == f

NoWindow == "NoWindow"
TargetWindow == "MapleStoryClass"

\* A lookup that returns no handle instead of raising when nothing matches.
find_window_none(n) ==
    IF n <= 1
    THEN [raised |-> FALSE, handle |-> IF n = 1 THEN TargetWindow ELSE NoWindow]
    ELSE [raised |-> TRUE, handle |-> NoWindow]

\* pywinauto.findwindows.find_window(class_name=...): the handle of the one
\* matching window; WindowNotFoundError when none matches,
\* WindowAmbiguousError when several do.
find_window(n) ==
    IF n = 1
    THEN [raised |-> FALSE, handle |-> TargetWindow]
    ELSE [raised |-> TRUE, handle |-> NoWindow]

VARIABLES
    variant,    \* which of the three scripts this process runs
    phase,      \* "boot": before __main__ ran; "serving": server.start() done;
                \* "failed": __main__ ended with an exception
    nwindows,   \* environment: number of windows matching the query
    focus,      \* environment: whether the target window has keyboard focus
    window,     \* KeyInput.window
    keys_map,   \* KeyInput.keys_map
    calls,      \* per RPC slot: the call's request, position and reply
    queue,      \* the thread pool's work queue (FIFO of slots)
    log         \* the backend calls made, in order (observation)

vars == <<variant, phase, nwindows, focus, window, keys_map, calls, queue, log>>

NoTable == <<>>

IdleCall ==
    [pc |-> "idle", op |-> "none", key |-> 0, sawFocus |-> FALSE,
     result |-> "none", error |-> "none", prior |-> {}]

Init ==
    /\ variant \in Variants
    /\ phase = "boot"
    /\ nwindows \in 0..MaxWindows
    /\ focus \in BOOLEAN
    /\ window = NoWindow
    /\ keys_map = NoTable
    /\ calls = [c \in Calls |-> IdleCall]
    /\ queue = <<>>
    /\ log = <<>>

(***************************************************************************)
(* __main__ of the two focus-gated scripts: resolve the window, build the  *)
(* table, construct KeyInput(window, keys_map), start the server.  An      *)
(* exception of find_window ends the script before the server exists.      *)
(***************************************************************************)
GatedMain(v) ==
    /\ variant = v
    /\ phase = "boot"
    /\ LET w == find_window(nwindows) IN
         IF w.raised
         THEN /\ phase' = "failed"
              /\ UNCHANGED <<window, keys_map>>
         ELSE /\ window' = w.handle
              /\ keys_map' = TableOf(v)
              /\ phase' = "serving"
    /\ UNCHANGED <<variant, nwindows, focus, calls, queue, log>>

main_main == GatedMain("main")

pywinauto_main == GatedMain("pywinauto")

\* __main__ of kmbox_example.py: kmNet.init, the table, the server.
kmbox_main ==
    /\ variant = "kmbox"
    /\ phase = "boot"
    /\ keys_map' = kmbox_keys_map
    /\ phase' = "serving"
    /\ UNCHANGED <<variant, nwindows, focus, window, calls, queue, log>>

\* The environment moves keyboard focus to or away from the target window.
FocusChange ==
    /\ Gated(variant)
    /\ phase = "serving"
    /\ focus' = ~focus
    /\ UNCHANGED <<variant, phase, nwindows, window, keys_map, calls, queue, log>>

\* Slots whose handler is running on a pool thread.
Running == {c \in Calls : calls[c].pc \in {"check", "act"}}

\* A client issues RPC op with request.key = k; the server hands the call to
\* its thread pool.  The call takes the lowest free slot (slots only name
\* the outstanding calls).  prior: the calls already completed (and not yet
\* acknowledged) when this one is issued.
Submit(c, op, k) ==
    /\ phase = "serving"
    /\ calls[c].pc = "idle"
    /\ \A d \in Calls : d < c => calls[d].pc # "idle"
    /\ calls' = [calls EXCEPT ![c] =
                    [pc |-> "queued", op |-> op, key |-> k, sawFocus |-> FALSE,
                     result |-> "none", error |-> "none",
                     prior |-> {d \in Calls : calls[d].pc = "done"}]]
    /\ queue' = Append(queue, c)
    /\ UNCHANGED <<variant, phase, nwindows, focus, window, keys_map, log>>

\* A free pool thread takes the oldest queued call and enters its handler.
Dispatch ==
    /\ queue # <<>>
    /\ Cardinality(Running) < max_workers(variant)
    /\ calls' = [calls EXCEPT ![Head(queue)].pc =
                    IF Gated(variant) THEN "check" ELSE "act"]
    /\ queue' = Tail(queue)
    /\ UNCHANGED <<variant, phase, nwindows, focus, window, keys_map, log>>

\* The handler returns KeyResponse() (result "ok") or ends with an exception,
\* which the server turns into a failed RPC (result "error").
Finish(c, result, error) ==
    calls' = [calls EXCEPT ![c].pc = "done", ![c].result = result,
                           ![c].error = error]

\* Send/SendUp/SendDown of the gated scripts, first step:
\* self.window.has_keyboard_focus().
HasKeyboardFocus(c) ==
    /\ Gated(variant)
    /\ calls[c].pc = "check"
    /\ IF FocusGate(focus)
       THEN calls' = [calls EXCEPT ![c].pc = "act", ![c].sawFocus = focus]
       ELSE calls' = [calls EXCEPT ![c].pc = "done", ![c].sawFocus = focus,
                                   ![c].result = "ok"]
    /\ UNCHANGED <<variant, phase, nwindows, focus, window, keys_map, queue, log>>

\* Act with per-key state: a backend call equal to one already made is
\* suppressed and acknowledged.
ActSuppress(c) ==
    /\ calls[c].pc = "act"
    /\ LET r == Resolve(keys_map, calls[c].key) IN
         IF ~r.found
         THEN /\ Finish(c, "error", "KeyError")
              /\ log' = log
         ELSE LET b == BackendCall(variant, calls[c].op, r.token) IN
              IF \E n \in 1..Len(log) :
                    log[n].prim = b.prim /\ log[n].args = b.args
              THEN /\ Finish(c, "ok", "none")
                   /\ log' = log
              ELSE \E ok \in BOOLEAN :
                     /\ log' = Append(log, [slot |-> c] @@ b)
                     /\ Finish(c, IF ok THEN "ok" ELSE "error",
                                  IF ok THEN "none" ELSE "BackendError")
    /\ UNCHANGED <<variant, phase, nwindows, focus, window, keys_map, queue>>

\* Act with a table that grows: a missing key is given the token of the Up
\* key (dict.setdefault) instead of raising.
ActSetDefault(c) ==
    /\ calls[c].pc = "act"
    /\ LET k == PyInt(calls[c].key)
           m == IF k \in DOMAIN keys_map THEN keys_map
                ELSE keys_map @@ (k :> keys_map[PyInt(Key("Up"))])
       IN /\ keys_map' = m
          /\ \E ok \in BOOLEAN :
                /\ log' = Append(log, [slot |-> c] @@
                             BackendCall(variant, calls[c].op, m[k]))
                /\ Finish(c, IF ok THEN "ok" ELSE "error",
                             IF ok THEN "none" ELSE "BackendError")
    /\ UNCHANGED <<variant, phase, nwindows, focus, window, queue>>

\* The rest of a handler: index keys_map by request.key (KeyError when
\* absent), build the argument, call the backend primitive, return.  The
\* primitive may itself raise.
Act(c) ==
    /\ calls[c].pc = "act"
    /\ LET r == Resolve(keys_map, calls[c].key) IN
         IF ~r.found
         THEN /\ Finish(c, "error", "KeyError")
              /\ log' = log
         ELSE \E ok \in BOOLEAN :
                /\ log' = Append(log, [slot |-> c] @@
                             BackendCall(variant, calls[c].op, r.token))
                /\ Finish(c, IF ok THEN "ok" ELSE "error",
                             IF ok THEN "none" ELSE "BackendError")
    /\ UNCHANGED <<variant, phase, nwindows, focus, window, keys_map, queue>>

\* The client receives the reply; the slot is free for another call and the
\* observation of the finished call is dropped.
Reply(c) ==
    /\ calls[c].pc = "done"
    /\ calls' = [d \in Calls |->
                    IF d = c THEN IdleCall
                    ELSE [calls[d] EXCEPT !.prior = @ \ {c}]]
    /\ log' = SelectSeq(log, LAMBDA e : e.slot # c)
    /\ UNCHANGED <<variant, phase, nwindows, focus, window, keys_map, queue>>

\* The request keys drawn when calls on different keys are outstanding: a
\* letter and a navigation key.
SampleKeys == {Key("A"), Key("Up")}

Next ==
    \/ main_main
    \/ pywinauto_main
    \/ kmbox_main
    \/ FocusChange
    \/ \E c \in Calls, op \in Ops, k \in SampleKeys : Submit(c, op, k)
    \/ Dispatch
    \/ \E c \in Calls : HasKeyboardFocus(c)
    \/ \E c \in Calls : Act(c)
    \/ \E c \in Calls : Reply(c)

Spec == Init /\ [][Next]_vars

\* A client that works on one key at a time, over every key of the enum: a
\* call is issued on the key of the calls still outstanding or unacknowledged.
KeysInUse == {calls[d].key : d \in {e \in Calls : calls[e].pc # "idle"}}

ClientKeys == IF KeysInUse = {} THEN Keys ELSE KeysInUse

\* The slots that client uses.
KeyCalls == {1, 2}

NextKeys ==
    \/ main_main
    \/ pywinauto_main
    \/ kmbox_main
    \/ FocusChange
    \/ \E c \in KeyCalls, op \in Ops, k \in ClientKeys : Submit(c, op, k)
    \/ Dispatch
    \/ \E c \in KeyCalls : HasKeyboardFocus(c)
    \/ \E c \in KeyCalls : Act(c)
    \/ \E c \in KeyCalls : Reply(c)

SpecKeys == Init /\ [][NextKeys]_vars

(***************************************************************************)
(* Observations used by the properties.                                    *)
(***************************************************************************)
Done(c) == calls[c].pc = "done"

\* The backend calls made for the call in slot c.
EntriesOf(c) == SelectSeq(log, LAMBDA e : e.slot = c)

\* The backend calls made for the calls in slots i and j, in order.
CallsOf(i, j) ==
    LET s == SelectSeq(log, LAMBDA e : e.slot \in {i, j})
    IN [n \in 1..Len(s) |-> [prim |-> s[n].prim, args |-> s[n].args]]

\* Call c reached the table lookup: every kmbox call, and a gated call whose
\* focus check passed.
Looked(c) == Gated(variant) => calls[c].sawFocus

\* Call j was issued after call i had returned.
Follows(i, j) == i \in calls[j].prior

(***************************************************************************)
(* C1.  On kmbox_example.py, SendDown(Up) followed by SendUp(Up) makes      *)
(* exactly two backend calls: kmNet.keydown(82), then kmNet.keyup(82).      *)
(***************************************************************************)
C1_HoldThenRelease ==
    variant = "kmbox" =>
        \A i, j \in Calls :
            ( /\ Follows(i, j) /\ Done(j)
              /\ calls[i].op = "SendDown" /\ calls[i].key = Key("Up")
              /\ calls[j].op = "SendUp" /\ calls[j].key = Key("Up") )
            => CallsOf(i, j) = << [prim |-> "keydown", args |-> <<82>>],
                                  [prim |-> "keyup", args |-> <<82>>] >>

(***************************************************************************)
(* C2.  On both focus-gated scripts the calls are serialized: at most one   *)
(* handler is between its entry and its return at any time, so no call's    *)
(* focus check or synthesis falls between another call's check and          *)
(* synthesis.                                                              *)
(***************************************************************************)
C2_Serialized ==
    Gated(variant) => Cardinality(Running) <= 1

(***************************************************************************)
(* C3.  A request whose key has no entry in the table ends in a failed RPC  *)
(* (KeyError), never an acknowledgement, and makes no backend call -- for   *)
(* every operation, on every script, whether or not the window has focus.   *)
(***************************************************************************)
C3_UnmappedFails ==
    \A c \in Calls :
        (Done(c) /\ ~Mapped(keys_map, calls[c].key))
        => /\ calls[c].result = "error"
           /\ calls[c].error = "KeyError"
           /\ Len(EntriesOf(c)) = 0

(***************************************************************************)
(* C4.  On the focus-gated scripts, a call whose focus check found the      *)
(* window without focus is acknowledged and send_keys is not called for it. *)
(***************************************************************************)
C4_UnfocusedNoOp ==
    Gated(variant) =>
        \A c \in Calls :
            (Done(c) /\ ~calls[c].sawFocus)
            => /\ calls[c].result = "ok"
               /\ Len(EntriesOf(c)) = 0

C4_Witness ==
    /\ Gated(variant)
    /\ \E c \in Calls :
          /\ Done(c) /\ ~calls[c].sawFocus /\ calls[c].result = "ok"
          /\ Mapped(keys_map, calls[c].key)
          /\ calls[c].op = "SendDown"

(***************************************************************************)
(* C5.  On the focus-gated scripts, with focus, Send of a mapped key passes *)
(* send_keys the bare token when the token is one character and "{TOKEN}"   *)
(* when it is longer.                                                      *)
(***************************************************************************)
C5_SendCharOrNamed ==
    Gated(variant) =>
        \A c \in Calls :
            ( /\ Done(c) /\ calls[c].op = "Send" /\ calls[c].sawFocus
              /\ Mapped(keys_map, calls[c].key) )
            => LET t == Resolve(keys_map, calls[c].key).token
                   e == EntriesOf(c)
               IN /\ Len(e) = 1
                  /\ e[1].prim = "send_keys"
                  /\ e[1].args = IF Len(t) = 1 THEN <<t>>
                                 ELSE <<"{" \o t \o "}">>

C5_Witness ==
    /\ variant = "pywinauto"
    /\ \E c \in Calls :
          /\ Done(c) /\ calls[c].op = "Send" /\ calls[c].sawFocus
          /\ calls[c].key = Key("A")
          /\ Len(EntriesOf(c)) = 1
          /\ EntriesOf(c)[1].args = <<"a">>

(***************************************************************************)
(* C6.  On kmbox_example.py every call on a mapped key makes exactly one    *)
(* backend call, carrying the looked-up keycode; which call it is depends   *)
(* only on the operation and the key (Send is always keypress), not on the  *)
(* calls made before: a repeated SendDown, or a SendUp without a SendDown,  *)
(* is forwarded as it is.                                                  *)
(***************************************************************************)
C6_StatelessForward ==
    variant = "kmbox" =>
        /\ \A c \in Calls :
              (Done(c) /\ Mapped(keys_map, calls[c].key))
              => LET e == EntriesOf(c)
                 IN /\ Len(e) = 1
                    /\ e[1].args[1] = keys_map[PyInt(calls[c].key)]
                    /\ calls[c].op = "Send" <=> e[1].prim = "keypress"
        /\ \A c, d \in Calls :
              ( /\ Done(c) /\ Done(d)
                /\ Mapped(keys_map, calls[c].key)
                /\ calls[c].op = calls[d].op /\ calls[c].key = calls[d].key )
              => CallsOf(c, c) = CallsOf(d, d)

C6_Witness ==
    /\ variant = "kmbox"
    /\ \E i, j \in Calls :
          /\ Follows(i, j) /\ Done(j)
          /\ calls[i].op = "SendDown" /\ calls[j].op = "SendDown"
          /\ calls[i].key = Key("Down") /\ calls[j].key = Key("Down")
          /\ Len(CallsOf(i, j)) = 2
          /\ CallsOf(i, j)[2].args = <<81>>

(***************************************************************************)
(* C7.  The server is never serving with an empty table or, on the gated    *)
(* scripts, without a resolved window: when the window query matches no     *)
(* window, start-up fails.                                                 *)
(***************************************************************************)
C7_NoDegradedStart ==
    phase = "serving" =>
        /\ DOMAIN keys_map # {}
        /\ Gated(variant) => (window # NoWindow /\ nwindows # 0)

C7_Witness ==
    /\ Gated(variant)
    /\ nwindows = 0
    /\ phase = "failed"
    /\ window = NoWindow

(***************************************************************************)
(* C8.  On the focus-gated scripts, with focus, SendDown of a mapped key    *)
(* makes exactly one send_keys call with "{TOKEN down}" and SendUp exactly  *)
(* one with "{TOKEN up}"; SendDown(k) followed by SendUp(k) yields the down *)
(* event, then the up event.                                               *)
(***************************************************************************)
C8_DownThenUp ==
    Gated(variant) =>
        /\ \A c \in Calls :
              ( /\ Done(c) /\ calls[c].op \in {"SendDown", "SendUp"}
                /\ calls[c].sawFocus /\ Mapped(keys_map, calls[c].key) )
              => LET t == Resolve(keys_map, calls[c].key).token
                     e == EntriesOf(c)
                 IN /\ Len(e) = 1
                    /\ e[1].prim = "send_keys"
                    /\ e[1].args =
                         IF calls[c].op = "SendDown"
                         THEN <<"{" \o t \o " down}">>
                         ELSE <<"{" \o t \o " up}">>
        /\ \A i, j \in Calls :
              ( /\ Follows(i, j) /\ Done(j)
                /\ calls[i].sawFocus /\ calls[j].sawFocus
                /\ calls[i].op = "SendDown" /\ calls[j].op = "SendUp"
                /\ calls[i].key = calls[j].key
                /\ Mapped(keys_map, calls[i].key) )
              => LET t == Resolve(keys_map, calls[i].key).token
                 IN CallsOf(i, j) =
                      << [prim |-> "send_keys", args |-> <<"{" \o t \o " down}">>],
                         [prim |-> "send_keys", args |-> <<"{" \o t \o " up}">>] >>

C8_Witness ==
    /\ variant = "pywinauto"
    /\ \E i, j \in Calls :
          /\ Follows(i, j) /\ Done(j)
          /\ calls[i].sawFocus /\ calls[j].sawFocus
          /\ calls[i].op = "SendDown" /\ calls[j].op = "SendUp"
          /\ calls[i].key = Key("Enter") /\ calls[j].key = Key("Enter")
          /\ CallsOf(i, j)[2].args = <<"{ENTER up}">>

(***************************************************************************)
(* C9.  In kmbox_example.py's table every letter key A..Z (request key      *)
(* values 0..25) has an entry, and request key value i resolves to the HID  *)
(* keycode 4 + i.                                                          *)
(***************************************************************************)
C9_LettersResolve ==
    (variant = "kmbox" /\ phase = "serving") =>
        \A i \in Letters :
            /\ Resolve(keys_map, i).found
            /\ Resolve(keys_map, i).token = 4 + i

(***************************************************************************)
(* C10.  No request changes the service's state: the table and the window   *)
(* reference stay as start-up left them, so a call's outcome is the one it  *)
(* would have as the first call; a call, failed or not, makes at most one   *)
(* backend call and is not queued again.                                   *)
(***************************************************************************)
C10_Outcome(c) ==
    LET e == EntriesOf(c)
        r == Resolve(TableOf(variant), calls[c].key)
    IN IF ~Looked(c)
       THEN calls[c].result = "ok" /\ Len(e) = 0
       ELSE IF ~r.found
       THEN calls[c].result = "error" /\ calls[c].error = "KeyError" /\ Len(e) = 0
       ELSE /\ Len(e) = 1
            /\ CallsOf(c, c) = <<BackendCall(variant, calls[c].op, r.token)>>
            /\ \/ calls[c].result = "ok" /\ calls[c].error = "none"
               \/ calls[c].result = "error" /\ calls[c].error = "BackendError"

C10_StateInv ==
    \A c \in Calls :
        /\ Len(EntriesOf(c)) <= 1
        /\ Done(c) => /\ \A n \in 1..Len(queue) : queue[n] # c
                      /\ C10_Outcome(c)

C10_Frame ==
    phase = "serving" =>
        /\ keys_map' = keys_map
        /\ window' = window
        /\ phase' = "serving"

C10_RequestsLeaveStateAlone ==
    [][C10_Frame]_vars /\ []C10_StateInv

C10_Witness ==
    \E i, j \in Calls :
        /\ Follows(i, j) /\ Done(j)
        /\ calls[i].result = "error" /\ calls[i].error = "KeyError"
        /\ calls[j].result = "ok" /\ Len(EntriesOf(j)) = 1
        /\ keys_map = TableOf(variant)

====
